---- MODULE Spec2Model ----
(***************************************************************************)
(* Port adapter (exporter/src/lib/Service.py, class Service) as a state    *)
(* machine.  One adapter object talks to a storage backend and a metadata  *)
(* backend; every method of the class is one action.  Backend answers      *)
(* (listing, status codes, transport errors) are inputs of the actions.    *)
(*                                                                         *)
(* Strings the code manipulates (service name, property values) are        *)
(* sequences of one-character strings; file names are atoms.               *)
(* Python's None is modelled by a separate flag next to the value          *)
(* (filesNone, customPropertiesNone) or by the empty option <<>>.          *)
(***************************************************************************)
EXTENDS Integers, Sequences, FiniteSets, TLC

\* ---------------------------------------------------------------- bounds
MaxFiles == 3               \* longest listing the storage backend answers with
MaxProperties == 2          \* longest property list of a port descriptor
MaxProjects == 3            \* projects added to a project registry

\* ------------------------------------------------------- string helpers
FileNames == {"a.txt", "b.txt", "c.txt"}

LowerChar(c) ==
    CASE c = "X" -> "x"
      [] c = "P" -> "p"
      [] c = "O" -> "o"
      [] c = "R" -> "r"
      [] c = "T" -> "t"
      [] OTHER -> c

\* str.lower()
Lower(s) == [i \in DOMAIN s |-> LowerChar(s[i])]

\* str.startswith(prefix)
StartsWith(s, prefix) ==
    /\ Len(s) >= Len(prefix)
    /\ SubSeq(s, 1, Len(prefix)) = prefix

\* str.endswith(suffix)
EndsWith(s, suffix) ==
    /\ Len(s) >= Len(suffix)
    /\ SubSeq(s, Len(s) - Len(suffix) + 1, Len(s)) = suffix

PortPrefix    == <<"p", "o", "r", "t", "-">>
ClusterPrefix == <<"h", "t", "t", "p", ":", "/", "/", "c", "i", "r", "c", "l", "e", "1", "-">>
NoneStr       == <<"N", "o", "n", "e">>

\* option values: <<>> is None, <<v>> is the value v
NoneVal  == <<>>
Some(v)  == <<v>>
IsNone(o) == Len(o) = 0

\* ---------------------------------------------------------------- inputs
ServiceNames ==
    { <<>>,
      <<"X">>,
      <<"p", "o", "r", "t", "-", "x">>,
      <<"P", "O", "R", "T", "-", "X">> }

TestAddress == <<"h", "t", "t", "p", ":", "/", "/", "t", "e", "s", "t">>

\* the `testing` argument: False (the default of __init__), None (the
\* default of fromDict) or an address
TestingFalse   == [isFalse |-> TRUE,  value |-> NoneVal]
TestingNone    == [isFalse |-> FALSE, value |-> NoneVal]
TestingAddress == [isFalse |-> FALSE, value |-> Some(TestAddress)]
Testings == { TestingFalse, TestingNone, TestingAddress }

KeyFilepath  == "filepath"
KeyProjectId == "projectId"
Keys == {KeyFilepath, KeyProjectId, "other"}

Prop(k, v) == [key |-> k, value |-> v]

PropValues == { <<"/", "d", "/">>, <<"/", "e">>, <<"7">> }

\* custom-property lists handed to the constructor (duplicate keys allowed)
PropLists ==
    { <<>>,
      << Prop(KeyProjectId, <<"7">>), Prop(KeyFilepath, <<"/", "e">>),
         Prop(KeyFilepath, <<"/", "d", "/">>) >> }

\* listings of the storage backend: the folder holds at most MaxFiles of
\* the files and lists them in the order of FileOrder
FileOrder == <<"a.txt", "b.txt", "c.txt">>
ListingOf(S) == SelectSeq(FileOrder, LAMBDA x : x \in S)
Listings == { ListingOf(S) : S \in { T \in SUBSET FileNames : Cardinality(T) <= MaxFiles } }

Statuses == {204, 300, 500}   \* HTTP status codes a backend answers with
NoAnswer == 0 - 1             \* the request raised: there is no status

Indexes == (0 - MaxFiles - 1) .. (MaxFiles + 1)

\* --------------------------------------------------- values of RDS enums
Absent == 0 - 1                     \* a field the JSON answer does not have
Unset  == 0 - 2                     \* an attribute __init__ never assigned
FileTransferModeValues == {0, 1}    \* FileTransferMode: active, passive
LoginModeValues        == {0, 1, 2} \* LoginMode: none, credentials, oauth

\* answers of GET /metadata/informations (raises: the request or .json() raised)
InfoAnswers ==
    { [raises |-> FALSE, archive |-> "",    ftm |-> Absent, lm |-> Absent, cred |-> "absent"],
      [raises |-> FALSE, archive |-> "zip", ftm |-> 1,      lm |-> 0,      cred |-> "creds"] }
InfoRaise ==
      [raises |-> TRUE,  archive |-> "",    ftm |-> Absent, lm |-> Absent, cred |-> "absent"]
InfoResponses == {InfoRaise} \cup InfoAnswers

\* answers of GET /storage/folder: the request (or .json()) raised, the
\* answer has no "files" field, or it carries the backend's listing
ListResponses == {"raise", "missing", "listing"}

\* one HTTP request as the adapter issued it, with the status it got
Request(kind, scope, file, id, status) ==
    [kind |-> kind, scope |-> scope, file |-> file, id |-> id, status |-> status]

\* ------------------------------------------------------ pure operations
Min(S) == CHOOSE m \in S : \A n \in S : m <= n

\* Service.getProperty: first pair with the key, None on a miss;
\* iterating customProperties = None raises TypeError
getProperty(cpNone, cp, key) ==
    IF cpNone
    THEN [exc |-> "TypeError", val |-> NoneVal]
    ELSE LET hits == { i \in DOMAIN cp : cp[i].key = key }
         IN  [exc |-> "",
              val |-> IF hits = {} THEN NoneVal ELSE Some(cp[Min(hits)].value)]

\* str(x) of an optional string
StrOf(o) == IF IsNone(o) THEN NoneStr ELSE o[1]

\* Service.getFilepath: the filepath property without one trailing slash
getFilepath(cpNone, cp) ==
    LET r == getProperty(cpNone, cp, KeyFilepath)
    IN  IF r.exc # "" THEN r
        ELSE IF EndsWith(StrOf(r.val), <<"/">>)
             THEN [exc |-> "",
                   val |-> Some(SubSeq(r.val[1], 1, Len(r.val[1]) - 1))]
             ELSE r

\* Service.getProjectId
getProjectId(cpNone, cp) == getProperty(cpNone, cp, KeyProjectId)

\* the mutable attributes of an adapter, as one record
Attrs(f, fNone, zip, ftm, lm, cred) ==
    [files |-> f, filesNone |-> fNone, useZipForFolder |-> zip,
     fileTransferMode |-> ftm, loginMode |-> lm, credentials |-> cred]

Get(v, default) == IF v = Absent THEN default ELSE v

\* (variant: the metadata backend answers with a file listing that is cached)
reloadInformationsListing(st, infoResp) ==
    LET req(status) == Request("GET /metadata/informations", <<>>, "", 0, status)
    IN  IF infoResp.raises
        THEN [st |-> st, exc |-> "RequestError", reqs |-> << req(NoAnswer) >>]
        ELSE
        LET st1 == [st EXCEPT !.useZipForFolder = (infoResp.archive = "zip"),
                              !.files = << "a.txt" >>, !.filesNone = FALSE]
            ftm == Get(infoResp.ftm, 0)
            st2 == [st1 EXCEPT !.fileTransferMode = ftm]
            lm  == Get(infoResp.lm, 1)
            st3 == [st2 EXCEPT !.loginMode = lm]
            st4 == IF lm = 0
                   THEN [st3 EXCEPT !.credentials =
                            IF infoResp.cred = "absent" THEN "{}" ELSE infoResp.cred]
                   ELSE st3
        IN  IF ftm \notin FileTransferModeValues
            THEN [st |-> st1, exc |-> "ValueError", reqs |-> << req(200) >>]
            ELSE IF lm \notin LoginModeValues
            THEN [st |-> st2, exc |-> "ValueError", reqs |-> << req(200) >>]
            ELSE [st |-> st4, exc |-> "", reqs |-> << req(200) >>]

\* Service.reloadInformations: the attributes are assigned one after the
\* other, an enum conversion of an unknown value raises ValueError
reloadInformations(st, infoResp) ==
    LET req(status) == Request("GET /metadata/informations", <<>>, "", 0, status)
    IN  IF infoResp.raises
        THEN [st |-> st, exc |-> "RequestError", reqs |-> << req(NoAnswer) >>]
        ELSE
        LET st1 == [st EXCEPT !.useZipForFolder = (infoResp.archive = "zip")]
            ftm == Get(infoResp.ftm, 0)
            st2 == [st1 EXCEPT !.fileTransferMode = ftm]
            lm  == Get(infoResp.lm, 1)
            st3 == [st2 EXCEPT !.loginMode = lm]
            st4 == IF lm = 0
                   THEN [st3 EXCEPT !.credentials =
                            IF infoResp.cred = "absent" THEN "{}" ELSE infoResp.cred]
                   ELSE st3
        IN  IF ftm \notin FileTransferModeValues
            THEN [st |-> st1, exc |-> "ValueError", reqs |-> << req(200) >>]
            ELSE IF lm \notin LoginModeValues
            THEN [st |-> st2, exc |-> "ValueError", reqs |-> << req(200) >>]
            ELSE [st |-> st4, exc |-> "", reqs |-> << req(200) >>]

\* the FileStorage branch of Service.reload
reloadStorage(cpNone, cp, st, backend, listResp) ==
    LET fp == getFilepath(cpNone, cp)
        req(status) == Request("GET /storage/folder", StrOf(fp.val), "", 0, status)
    IN  IF fp.exc # ""
        THEN [st |-> st, exc |-> fp.exc, reqs |-> <<>>]
        ELSE IF listResp = "raise"
        THEN [st |-> st, exc |-> "RequestError", reqs |-> << req(NoAnswer) >>]
        ELSE IF listResp = "missing"
        THEN [st |-> [st EXCEPT !.files = <<>>, !.filesNone = TRUE],
              exc |-> "", reqs |-> << req(200) >>]
        ELSE [st |-> [st EXCEPT !.files = backend, !.filesNone = FALSE],
              exc |-> "", reqs |-> << req(200) >>]

\* Service.reload: storage branch, then metadata branch
reload(fs, md, cpNone, cp, st, backend, listResp, infoResp) ==
    LET a == IF fs THEN reloadStorage(cpNone, cp, st, backend, listResp)
             ELSE [st |-> st, exc |-> "", reqs |-> <<>>]
    IN  IF a.exc # "" \/ ~md THEN a
        ELSE LET b == reloadInformations(a.st, infoResp)
             IN  [st |-> b.st, exc |-> b.exc, reqs |-> a.reqs \o b.reqs]

\* ------------------------------------------------------------------ state
VARIABLES
    phase,                \* "none": no adapter object; "alive": constructed
    servicename,          \* self.servicename, as given to __init__
    port,                 \* self.port, the normalised name
    portaddress,          \* self.portaddress
    fileStorage,          \* self.fileStorage
    metadata,             \* self.metadata
    customProperties,     \* self.customProperties (a list) ...
    customPropertiesNone, \* ... or None
    files,                \* self.files, the cached listing (a list) ...
    filesNone,            \* ... or None
    useZipForFolder,      \* self.useZipForFolder
    fileTransferMode,     \* self.fileTransferMode (Unset until assigned)
    loginMode,            \* self.loginMode (Unset until assigned)
    credentials,          \* self.credentials ("unset" until assigned)
    storage,              \* the storage backend's listing for the root path
    gen,                  \* the generator object returned by getFiles; the
                          \* caller drops it before calling another method
    last,                 \* the last call: arguments, outcome, requests issued
    projects,             \* ProjectService.projects: the dict user -> list of
                          \* projects as the sequence of its items in
                          \* insertion order
    highest_index         \* ProjectService.highest_index

config == <<servicename, port, portaddress, fileStorage, metadata,
            customProperties, customPropertiesNone>>
attrs  == <<files, filesNone, useZipForFolder, fileTransferMode, loginMode,
            credentials>>
registry == <<projects, highest_index>>
service  == <<phase, config, attrs, storage, gen>>
vars   == <<phase, config, attrs, storage, gen, last, registry>>

\* the outcome of a call: result is "True", "False", "None" (no value),
\* "value" (val or content holds it) or the name of the exception raised
\* for a construction, args holds the arguments of __init__ and properties
\* the property list of the descriptor given to fromDict
Args(name, testing, fs, md, cpNone, cp) ==
    [name |-> name, testing |-> testing, fs |-> fs, md |-> md,
     cpNone |-> cpNone, cp |-> cp]
NoArgs == Args(<<>>, TestingFalse, FALSE, FALSE, TRUE, <<>>)
Last(op, idx, key, result, reqs, val, content) ==
    [op |-> op, idx |-> idx, key |-> key, result |-> result, reqs |-> reqs,
     val |-> val, content |-> content, args |-> NoArgs, properties |-> <<>>]

NoGen ==
    [state |-> "none", getContent |-> FALSE, pos |-> 0, yielded |-> <<>>,
     fetches |-> 0]

CurAttrs ==
    Attrs(files, filesNone, useZipForFolder, fileTransferMode, loginMode,
          credentials)

SetAttrs(st) ==
    /\ files' = st.files
    /\ filesNone' = st.filesNone
    /\ useZipForFolder' = st.useZipForFolder
    /\ fileTransferMode' = st.fileTransferMode
    /\ loginMode' = st.loginMode
    /\ credentials' = st.credentials

\* the attributes right after the assignments of __init__, before reload
InitAttrs == Attrs(<<>>, FALSE, FALSE, Unset, Unset, "unset")

Init ==
    /\ phase = "none"
    /\ servicename = <<>>
    /\ port = <<>>
    /\ portaddress = NoneVal
    /\ fileStorage = FALSE
    /\ metadata = FALSE
    /\ customProperties = <<>>
    /\ customPropertiesNone = TRUE
    /\ files = <<>>
    /\ filesNone = FALSE
    /\ useZipForFolder = FALSE
    /\ fileTransferMode = Unset
    /\ loginMode = Unset
    /\ credentials = "unset"
    /\ storage \in Listings
    /\ gen = NoGen
    /\ last = Last("", 0, "", "None", <<>>, NoneVal, "")
    /\ projects = <<>>
    /\ highest_index = 0

\* Service.__init__(servicename, userId, researchIndex, fileStorage,
\* metadata, customProperties, testing), called as such (op "__init__") or
\* by fromDict (op "factory"); an exception of reload leaves no adapter
\* object behind, and a request to the address None raises before anything
\* is sent
Create(op, properties, name, testing, fs, md, cpNone, cp, listResp, infoResp) ==
    LET normalised == IF ~StartsWith(name, PortPrefix)
                      THEN PortPrefix \o Lower(name)
                      ELSE name
        address    == IF testing.isFalse
                      THEN Some(ClusterPrefix \o Lower(normalised))
                      ELSE testing.value
        r == reload(fs, md, cpNone, cp, InitAttrs, storage,
                    IF IsNone(address) THEN "raise" ELSE listResp,
                    IF IsNone(address) THEN InfoRaise ELSE infoResp)
        l == [Last(op, 0, "", IF r.exc = "" THEN "None" ELSE r.exc, r.reqs,
                   Some(name), "")
                EXCEPT !.args = Args(name, testing, fs, md, cpNone, cp),
                       !.properties = properties]
    IN  /\ phase = "none"
        /\ gen' = NoGen
        /\ last' = l
        /\ UNCHANGED storage
        /\ IF r.exc = ""
           THEN /\ phase' = "alive"
                /\ servicename' = name
                /\ port' = normalised
                /\ portaddress' = address
                /\ fileStorage' = fs
                /\ metadata' = md
                /\ customProperties' = cp
                /\ customPropertiesNone' = cpNone
                /\ SetAttrs(r.st)
           ELSE /\ phase' = "none"
                /\ UNCHANGED <<config, attrs>>

Construct(name, testing, fs, md, cpNone, cp, listResp, infoResp) ==
    Create("__init__", <<>>, name, testing, fs, md, cpNone, cp, listResp, infoResp)

\* a property of a port descriptor: value is a flag for the types metadata
\* and fileStorage and a property list for the type customProperties
PortProperty(portType, flag, list) ==
    [portType |-> portType, flag |-> flag, list |-> list]
PortDict(portName, properties) == [port |-> portName, properties |-> properties]

\* Service.fromDict: the loop over portDict["properties"]
RECURSIVE fromDictLoop(_, _)
fromDictLoop(properties, acc) ==
    IF properties = <<>> THEN acc
    ELSE LET prop == Head(properties)
             next == IF prop.portType = "metadata"
                     THEN [acc EXCEPT !.md = prop.flag]
                     ELSE IF prop.portType = "fileStorage"
                     THEN [acc EXCEPT !.fs = prop.flag]
                     ELSE IF prop.portType = "customProperties"
                     THEN [acc EXCEPT !.cpNone = FALSE, !.cp = prop.list]
                     ELSE acc
         IN  fromDictLoop(Tail(properties), next)

\* (variant: the first property of a type is the one that counts)
fromDictFirstWins(portDict, testing) ==
    fromDictLoop([i \in DOMAIN portDict.properties |->
                     portDict.properties[Len(portDict.properties) + 1 - i]],
                 Args(portDict.port, testing, FALSE, FALSE, TRUE, <<>>))

\* Service.fromDict: the arguments it passes to the constructor
fromDict(portDict, testing) ==
    fromDictLoop(portDict.properties,
                 Args(portDict.port, testing, FALSE, FALSE, TRUE, <<>>))

\* Service.fromDict(portDict, userId, researchIndex, testing)
FromDict(portDict, testing, listResp, infoResp) ==
    LET a == fromDict(portDict, testing)
    IN  Create("factory", portDict.properties, a.name, a.testing, a.fs, a.md,
               a.cpNone, a.cp, listResp, infoResp)

\* Service.reload()
Reload(listResp, infoResp) ==
    LET r == reload(fileStorage, metadata, customPropertiesNone,
                    customProperties, CurAttrs, storage, listResp, infoResp)
    IN  /\ phase = "alive"
        /\ SetAttrs(r.st)
        /\ gen' = NoGen
        /\ last' = Last("reload", 0, "", IF r.exc = "" THEN "None" ELSE r.exc,
                        r.reqs, NoneVal, "")
        /\ UNCHANGED <<phase, config, storage>>

\* somebody else changes the folder on the storage backend
BackendChange ==
    /\ \E l \in Listings : storage' = l /\ l # storage
    /\ UNCHANGED <<phase, config, attrs, gen, last>>

\* ---------------------------------------------------- Python indexing
\* list[idx]: indexes -len .. len-1 address an entry, others raise IndexError
InRange(f, idx) == 0 - Len(f) <= idx /\ idx < Len(f)
PyIndex(f, idx) == IF idx >= 0 THEN idx + 1 ELSE Len(f) + idx + 1

\* (variant: the last entry is deleted whatever the index)
DelLast(f, idx) == SubSeq(f, 1, Len(f) - 1)

\* del list[idx]
DelAt(f, idx) ==
    LET k == PyIndex(f, idx)
    IN  SubSeq(f, 1, k - 1) \o SubSeq(f, k + 1, Len(f))

\* Service.getDict / getJSON: list(self.getFiles()) iterates self.files
getJSON(fNone) == IF fNone THEN "TypeError" ELSE ""

\* answers to a request that carries a status: it raised, or a status
\* and a body that is JSON or not
Answer(raises, status, jsonBody) ==
    [raises |-> raises, status |-> status, jsonBody |-> jsonBody]
StatusAnswers ==
    { Answer(TRUE, NoAnswer, FALSE) } \cup
    { Answer(FALSE, st, jb) : st \in Statuses, jb \in BOOLEAN }
\* the same for requests of which the code reads the status only
DeleteAnswers == { a \in StatusAnswers : a.jsonBody = FALSE }

\* (variant: the content is requested whether or not FileStorage is enabled)
getFileAlways(fs, cpNone, cp, f, fNone, idx, fetchRaises) ==
    IF fNone THEN [exc |-> "TypeError", content |-> "", reqs |-> <<>>]
    ELSE IF ~InRange(f, idx)
    THEN [exc |-> "IndexError", content |-> "", reqs |-> <<>>]
    ELSE LET file == f[PyIndex(f, idx)]
             fp   == getFilepath(cpNone, cp)
             req(status) ==
                 Request("GET /storage/file", StrOf(fp.val), file, 0, status)
         IN  IF fp.exc # ""
             THEN [exc |-> fp.exc, content |-> "", reqs |-> <<>>]
             ELSE IF fetchRaises
             THEN [exc |-> "RequestError", content |-> "",
                   reqs |-> << req(NoAnswer) >>]
             ELSE [exc |-> "", content |-> file, reqs |-> << req(200) >>]

\* Service.getFile(file_id): the element is read first, then the request
getFile(fs, cpNone, cp, f, fNone, idx, fetchRaises) ==
    IF fNone THEN [exc |-> "TypeError", content |-> "", reqs |-> <<>>]
    ELSE IF ~InRange(f, idx)
    THEN [exc |-> "IndexError", content |-> "", reqs |-> <<>>]
    ELSE IF fs
    THEN LET file == f[PyIndex(f, idx)]
             fp   == getFilepath(cpNone, cp)
             req(status) ==
                 Request("GET /storage/file", StrOf(fp.val), file, 0, status)
         IN  IF fp.exc # ""
             THEN [exc |-> fp.exc, content |-> "", reqs |-> <<>>]
             ELSE IF fetchRaises
             THEN [exc |-> "RequestError", content |-> "",
                   reqs |-> << req(NoAnswer) >>]
             ELSE [exc |-> "", content |-> file, reqs |-> << req(200) >>]
    ELSE [exc |-> "", content |-> "", reqs |-> <<>>]

\* the POST to the per-project files endpoint shared by triggerPassiveMode
\* and addFile: the call to getJSON for the debug line comes first, an
\* error status is logged with response.json() before False is returned
postFiles(md, cpNone, cp, fNone, file, ans) ==
    LET pid == getProjectId(cpNone, cp)
        req == Request("POST /metadata/project/files", StrOf(pid.val), file, 0,
                       ans.status)
    IN  IF getJSON(fNone) # ""
        THEN [result |-> getJSON(fNone), reqs |-> <<>>]
        ELSE IF ~md THEN [result |-> "True", reqs |-> <<>>]
        ELSE IF pid.exc # "" THEN [result |-> pid.exc, reqs |-> <<>>]
        ELSE IF ans.raises THEN [result |-> "RequestError", reqs |-> << req >>]
        ELSE IF ans.status >= 300
        THEN [result |-> IF ans.jsonBody THEN "False" ELSE "JSONDecodeError",
              reqs |-> << req >>]
        ELSE [result |-> "True", reqs |-> << req >>]

\* (variant: the contents are fetched when the enumeration is created)
GetFilesEager(getContent) ==
    /\ phase = "alive"
    /\ gen' = [NoGen EXCEPT !.state = "created", !.getContent = getContent,
                            !.fetches = IF getContent /\ fileStorage
                                        THEN Len(files) ELSE 0]
    /\ last' = Last("getFiles", 0, "", "value", <<>>, NoneVal, "")
    /\ UNCHANGED <<phase, config, attrs, storage>>

\* Service.getFiles(getContent): calling a generator function runs none
\* of its body
GetFiles(getContent) ==
    /\ phase = "alive"
    /\ gen' = [NoGen EXCEPT !.state = "created", !.getContent = getContent]
    /\ last' = Last("getFiles", 0, "", "value", <<>>, NoneVal, "")
    /\ UNCHANGED <<phase, config, attrs, storage>>

\* next() on the generator: the first call evaluates enumerate(self.files),
\* every call runs the loop body up to the next yield
GenNext(fetchRaises) ==
    LET starting == gen.state = "created"
        list     == files
        g        == [gen EXCEPT !.state = "running"]
        c        == getFile(fileStorage, customPropertiesNone, customProperties,
                            files, filesNone, g.pos, fetchRaises)
    IN  /\ phase = "alive"
        /\ gen.state \in {"created", "running"}
        /\ UNCHANGED <<phase, config, attrs, storage>>
        /\ IF starting /\ filesNone
           THEN /\ gen' = [gen EXCEPT !.state = "failed"]
                /\ last' = Last("next", 0, "", "TypeError", <<>>, NoneVal, "")
           ELSE IF g.pos >= Len(list)
           THEN /\ gen' = [g EXCEPT !.state = "done"]
                /\ last' = Last("next", g.pos, "", "StopIteration", <<>>,
                                NoneVal, "")
           ELSE IF ~g.getContent
           THEN /\ gen' = [g EXCEPT !.pos = g.pos + 1,
                                    !.yielded = Append(g.yielded, << list[g.pos + 1] >>)]
                /\ last' = Last("next", g.pos, list[g.pos + 1], "value", <<>>,
                                NoneVal, "")
           ELSE IF c.exc # ""
           THEN /\ gen' = [g EXCEPT !.state = "failed",
                                    !.fetches = g.fetches + Len(c.reqs)]
                /\ last' = Last("next", g.pos, list[g.pos + 1], c.exc, c.reqs,
                                NoneVal, "")
           ELSE /\ gen' = [g EXCEPT !.pos = g.pos + 1,
                                    !.fetches = g.fetches + Len(c.reqs),
                                    !.yielded = Append(g.yielded,
                                                  << list[g.pos + 1], c.content >>)]
                /\ last' = Last("next", g.pos, list[g.pos + 1], "value", c.reqs,
                                NoneVal, c.content)

\* Service.getFile(file_id)
GetFile(idx, fetchRaises) ==
    LET c == getFile(fileStorage, customPropertiesNone, customProperties,
                     files, filesNone, idx, fetchRaises)
    IN  /\ phase = "alive"
        /\ last' = Last("getFile", idx, "", IF c.exc = "" THEN "value" ELSE c.exc,
                        c.reqs, NoneVal, c.content)
        /\ gen' = NoGen
        /\ UNCHANGED <<phase, config, attrs, storage>>

\* Service.getProperty(key)
GetProperty(key) ==
    LET r == getProperty(customPropertiesNone, customProperties, key)
    IN  /\ phase = "alive"
        /\ last' = Last("getProperty", 0, key, IF r.exc = "" THEN "value" ELSE r.exc,
                        <<>>, r.val, "")
        /\ gen' = NoGen
        /\ UNCHANGED <<phase, config, attrs, storage>>

\* (variant: a rejected trigger switches the Metadata capability off)
TriggerPassiveModeDisabling(ans) ==
    LET r == postFiles(metadata, customPropertiesNone, customProperties,
                       filesNone, "", ans)
    IN  /\ phase = "alive"
        /\ last' = Last("triggerPassiveMode", 0, "folder", r.result, r.reqs,
                        NoneVal, "")
        /\ gen' = NoGen
        /\ metadata' = (metadata /\ r.result # "False")
        /\ UNCHANGED <<phase, servicename, port, portaddress, fileStorage,
                       customProperties, customPropertiesNone, attrs, storage>>

\* Service.triggerPassiveMode(folder)
TriggerPassiveMode(ans) ==
    LET r == postFiles(metadata, customPropertiesNone, customProperties,
                       filesNone, "", ans)
    IN  /\ phase = "alive"
        /\ last' = Last("triggerPassiveMode", 0, "folder", r.result, r.reqs,
                        NoneVal, "")
        /\ gen' = NoGen
        /\ UNCHANGED <<phase, config, attrs, storage>>

\* (variant: a successful upload is appended to the cached listing)
AddFileCaching(filename, ans) ==
    LET r == postFiles(metadata, customPropertiesNone, customProperties,
                       filesNone, filename, ans)
    IN  /\ phase = "alive"
        /\ last' = Last("addFile", 0, filename, r.result, r.reqs, NoneVal, "")
        /\ gen' = NoGen
        /\ files' = IF r.result = "True" THEN Append(files, filename) ELSE files
        /\ UNCHANGED <<phase, config, filesNone, useZipForFolder,
                       fileTransferMode, loginMode, credentials, storage>>

\* Service.addFile(filename, fileContent)
AddFile(filename, ans) ==
    LET r == postFiles(metadata, customPropertiesNone, customProperties,
                       filesNone, filename, ans)
    IN  /\ phase = "alive"
        /\ last' = Last("addFile", 0, filename, r.result, r.reqs, NoneVal, "")
        /\ gen' = NoGen
        /\ UNCHANGED <<phase, config, attrs, storage>>

\* (variant: the status 300 itself counts as a confirmed delete)
FoundUpTo300(ans) == ~ans.raises /\ ans.status <= 300

\* a status below 300 answers a delete
Found(ans) == ~ans.raises /\ ans.status < 300

\* the storage backend after DELETE /storage/file for a file
StorageDeleted(backend, file, ans) ==
    IF Found(ans)
    THEN SelectSeq(backend, LAMBDA x : x # file)
    ELSE backend

\* Service.removeFile(file_id): the outcome of the two delete branches
removeFile(fs, md, cpNone, cp, f, fNone, idx, sAns, mAns) ==
    LET file == f[PyIndex(f, idx)]
        fp   == getFilepath(cpNone, cp)
        pid  == getProjectId(cpNone, cp)
        sReq == Request("DELETE /storage/file", StrOf(fp.val), file, 0, sAns.status)
        mReq == Request("DELETE /metadata/project/files/id", StrOf(pid.val), "",
                        idx, mAns.status)
        none == [result |-> "", reqs |-> <<>>, found |-> FALSE]
        s    == IF ~fs THEN none
                ELSE IF fp.exc # "" THEN [none EXCEPT !.result = fp.exc]
                ELSE IF sAns.raises
                THEN [result |-> "RequestError", reqs |-> << sReq >>, found |-> FALSE]
                ELSE [result |-> "", reqs |-> << sReq >>, found |-> Found(sAns)]
        m    == IF ~md THEN s
                ELSE IF pid.exc # "" THEN [s EXCEPT !.result = pid.exc]
                ELSE IF mAns.raises
                THEN [result |-> "RequestError", reqs |-> s.reqs \o << mReq >>,
                      found |-> s.found]
                ELSE [result |-> "", reqs |-> s.reqs \o << mReq >>,
                      found |-> s.found \/ Found(mAns)]
    IN  IF fNone THEN [none EXCEPT !.result = "TypeError"]
        ELSE IF ~InRange(f, idx) THEN [none EXCEPT !.result = "IndexError"]
        ELSE IF s.result # "" THEN s
        ELSE IF m.result # "" THEN m
        ELSE [m EXCEPT !.result = IF m.found THEN "True" ELSE "False"]

RemoveFile(idx, sAns, mAns) ==
    LET r == removeFile(fileStorage, metadata, customPropertiesNone,
                        customProperties, files, filesNone, idx, sAns, mAns)
        newFiles == IF r.result = "True" THEN DelAt(files, idx) ELSE files
        sent == \E i \in DOMAIN r.reqs : r.reqs[i].kind = "DELETE /storage/file"
    IN  /\ phase = "alive"
        /\ files' = newFiles
        /\ gen' = NoGen
        /\ storage' = IF sent
                      THEN StorageDeleted(storage, files[PyIndex(files, idx)], sAns)
                      ELSE storage
        /\ last' = Last("removeFile", idx, "", r.result, r.reqs, NoneVal, "")
        /\ UNCHANGED <<phase, config, filesNone, useZipForFolder,
                       fileTransferMode, loginMode, credentials>>

\* (variant: the FileStorage branch does not report success)
removeAllFoundMetadataOnly(fs, md, mAns) == md /\ Found(mAns)

\* the merged result of Service.removeAllFiles: the FileStorage branch is
\* a placeholder that sets found, the Metadata branch sets it on a status
\* below 300
removeAllFound(fs, md, mAns) == fs \/ (md /\ Found(mAns))

\* Service.removeAllFiles(): the merge of the branches, then the reload
RemoveAllFiles(mAns, listResp, infoResp) ==
    LET pid  == getProjectId(customPropertiesNone, customProperties)
        mReq == Request("DELETE /metadata/project/files", StrOf(pid.val), "", 0,
                        mAns.status)
        exc  == IF ~metadata THEN ""
                ELSE IF pid.exc # "" THEN pid.exc
                ELSE IF mAns.raises THEN "RequestError" ELSE ""
        reqs == IF metadata /\ pid.exc = "" THEN << mReq >> ELSE <<>>
        found == removeAllFound(fileStorage, metadata, mAns)
        r == reload(fileStorage, metadata, customPropertiesNone,
                    customProperties, CurAttrs, storage, listResp, infoResp)
    IN  /\ phase = "alive"
        /\ gen' = NoGen
        /\ UNCHANGED <<phase, config, storage>>
        /\ IF exc # ""
           THEN /\ UNCHANGED attrs
                /\ last' = Last("removeAllFiles", 0, "", exc, reqs, NoneVal, "")
           ELSE IF ~found
           THEN /\ UNCHANGED attrs
                /\ last' = Last("removeAllFiles", 0, "", "False", reqs, NoneVal, "")
           ELSE /\ SetAttrs(r.st)
                /\ last' = Last("removeAllFiles", 0, "",
                                IF r.exc = "" THEN "True" ELSE r.exc,
                                reqs \o r.reqs, NoneVal, "")

\* the constructor calls explored under the name X: every property list
\* (and none) with each single capability and with no capability, both
\* capabilities with the full list and with none; every name and override
\* on an adapter without capabilities; the empty name on a Metadata adapter
FullProps ==
    << Prop(KeyProjectId, <<"7">>), Prop(KeyFilepath, <<"/", "e">>),
       Prop(KeyFilepath, <<"/", "d", "/">>) >>
ConstructorArgs ==
    { a \in { Args(<<"X">>, TestingFalse, fs, md, FALSE, cp) :
                 fs \in BOOLEAN, md \in BOOLEAN, cp \in PropLists } :
         (a.fs /\ a.md) => a.cp = FullProps }
    \cup
    { Args(<<"X">>, TestingFalse, fs, md, TRUE, <<>>) : fs \in BOOLEAN, md \in BOOLEAN }
    \cup
    { Args(name, testing, FALSE, FALSE, FALSE, FullProps) :
         name \in ServiceNames, testing \in Testings }
    \cup
    { Args(<<>>, TestingFalse, FALSE, TRUE, FALSE, FullProps) }

\* the factory calls explored: every property list of up to MaxProperties
\* properties under the name X, with the default `testing` and with False,
\* with an address when the list has no fileStorage property; every name and
\* override with the empty property list
PortProperties ==
    { PortProperty("metadata", TRUE, <<>>),
      PortProperty("metadata", FALSE, <<>>),
      PortProperty("fileStorage", TRUE, <<>>),
      PortProperty("customProperties", FALSE, FullProps),
      PortProperty("tags", TRUE, <<>>) }
PropertyLists ==
    UNION { [1 .. n -> PortProperties] : n \in 0 .. MaxProperties }
FactoryCall(portDict, testing) == [portDict |-> portDict, testing |-> testing]
FactoryCalls ==
    { c \in { FactoryCall(PortDict(<<"X">>, ps), t) :
                 ps \in PropertyLists, t \in Testings } :
         c.testing = TestingAddress
            => \A i \in DOMAIN c.portDict.properties :
                   c.portDict.properties[i].portType # "fileStorage" }
    \cup
    { FactoryCall(PortDict(name, <<>>), t) : name \in ServiceNames, t \in Testings }

\* an answer is drawn only for a request the call can issue
NoList == "raise"
ListFor(fs)  == IF fs THEN ListResponses ELSE {NoList}
InfoFor(md)  == IF md THEN InfoResponses ELSE {InfoRaise}
NoAns        == Answer(TRUE, NoAnswer, FALSE)
DeleteFor(b) == IF b THEN DeleteAnswers ELSE {NoAns}
PostFor(b)   == IF b THEN { a \in StatusAnswers : a.status < 300 => ~a.jsonBody }
                ELSE {NoAns}

\* the calls on the adapter, each with every input and every answer
CallConstruct ==
    /\ phase = "none"
    /\ \E a \in ConstructorArgs :
         \E listResp \in ListFor(a.fs), infoResp \in InfoFor(a.md) :
           Construct(a.name, a.testing, a.fs, a.md, a.cpNone, a.cp,
                     listResp, infoResp)
    /\ UNCHANGED registry
CallFromDict ==
    /\ phase = "none"
    /\ \E c \in FactoryCalls :
         \E listResp \in ListFor(fromDict(c.portDict, c.testing).fs),
            infoResp \in InfoFor(fromDict(c.portDict, c.testing).md) :
           FromDict(c.portDict, c.testing, listResp, infoResp)
    /\ UNCHANGED registry
CallReload ==
    /\ phase = "alive"
    /\ \E listResp \in ListFor(fileStorage), infoResp \in InfoFor(metadata) :
           Reload(listResp, infoResp)
    /\ UNCHANGED registry
CallGetFiles ==
    /\ phase = "alive"
    /\ \E getContent \in BOOLEAN : GetFiles(getContent)
    /\ UNCHANGED registry
CallNext ==
    /\ phase = "alive"
    /\ \E fetchRaises \in IF fileStorage /\ gen.getContent
                          THEN BOOLEAN ELSE {FALSE} :
           GenNext(fetchRaises)
    /\ UNCHANGED registry
CallGetFile ==
    /\ phase = "alive"
    /\ \E idx \in Indexes :
         \E fetchRaises \in IF fileStorage /\ InRange(files, idx)
                            THEN BOOLEAN ELSE {FALSE} :
           GetFile(idx, fetchRaises)
    /\ UNCHANGED registry
CallGetProperty ==
    /\ phase = "alive"
    /\ \E key \in Keys : GetProperty(key)
    /\ UNCHANGED registry
CallTriggerPassiveMode ==
    /\ phase = "alive"
    /\ \E ans \in PostFor(metadata) : TriggerPassiveMode(ans)
    /\ UNCHANGED registry
CallAddFile ==
    /\ phase = "alive"
    /\ \E filename \in FileNames, ans \in PostFor(metadata) :
           AddFile(filename, ans)
    /\ UNCHANGED registry
CallRemoveFile ==
    /\ phase = "alive"
    /\ \E idx \in Indexes :
         \E sAns \in DeleteFor(fileStorage /\ InRange(files, idx)),
            mAns \in DeleteFor(metadata /\ InRange(files, idx)) :
           RemoveFile(idx, sAns, mAns)
    /\ UNCHANGED registry
CallRemoveAllFiles ==
    /\ phase = "alive"
    /\ \E mAns \in DeleteFor(metadata),
         listResp \in ListFor(fileStorage), infoResp \in InfoFor(metadata) :
           RemoveAllFiles(mAns, listResp, infoResp)
    /\ UNCHANGED registry
OtherBackendChange ==
    /\ BackendChange
    /\ UNCHANGED registry

Next ==
    \/ CallConstruct
    \/ CallFromDict
    \/ CallReload
    \/ CallGetFiles
    \/ CallNext
    \/ CallGetFile
    \/ CallGetProperty
    \/ CallTriggerPassiveMode
    \/ CallAddFile
    \/ CallRemoveFile
    \/ CallRemoveAllFiles
    \/ OtherBackendChange

Spec == Init /\ [][Next]_vars

\* the adapter over a storage backend that nobody else changes
NextOwned ==
    \/ CallConstruct
    \/ CallFromDict
    \/ CallReload
    \/ CallGetFiles
    \/ CallNext
    \/ CallGetFile
    \/ CallGetProperty
    \/ CallTriggerPassiveMode
    \/ CallAddFile
    \/ CallRemoveFile
    \/ CallRemoveAllFiles

SpecOwned == Init /\ [][NextOwned]_vars

\* ------------------------------------------------ getFile as a function
\* getFile and getFiles read self.files and self.fileStorage only, so they
\* are applied here to an adapter object without FileStorage whose cache
\* is any listing (the methods of Service themselves never give such an
\* adapter a cache entry)
InitGetFile ==
    /\ phase = "alive"
    /\ servicename = <<"X">>
    /\ port = PortPrefix \o <<"x">>
    /\ portaddress = Some(ClusterPrefix \o PortPrefix \o <<"x">>)
    /\ fileStorage = FALSE
    /\ metadata \in BOOLEAN
    /\ customProperties = FullProps
    /\ customPropertiesNone = FALSE
    /\ files \in Listings
    /\ filesNone = FALSE
    /\ useZipForFolder = FALSE
    /\ fileTransferMode = Unset
    /\ loginMode = Unset
    /\ credentials = "unset"
    /\ storage = <<>>
    /\ gen = NoGen
    /\ last = Last("", 0, "", "None", <<>>, NoneVal, "")
    /\ projects = <<>>
    /\ highest_index = 0

NextGetFile ==
    \/ CallGetFiles
    \/ CallNext
    \/ CallGetFile

SpecGetFile == InitGetFile /\ [][NextGetFile]_vars

\* ---------------------------------------------------- project registry
\* ProjectService (project_manager/src/lib/ProjectService.py): a registry
\* object of its own; a project is the record of the attributes the
\* registry reads and assigns
Users == {"u1", "u2"}
Identifiers == (0 - 1) .. MaxProjects

Project(user, projectId, projectIndex) ==
    [user |-> user, projectId |-> projectId, projectIndex |-> projectIndex]
Item(user, list) == [user |-> user, list |-> list]

\* the position of the key user in the dict, 0 if it is not a key
KeyPos(projs, user) ==
    IF \E i \in DOMAIN projs : projs[i].user = user
    THEN CHOOSE i \in DOMAIN projs : projs[i].user = user
    ELSE 0

\* all stored projects
RECURSIVE Stored(_)
Stored(projs) ==
    IF projs = <<>> THEN <<>> ELSE Head(projs).list \o Stored(Tail(projs))

\* (variant: the id of a new project is the number of stored projects)
addProjectCounting(projs, hi, user) ==
    LET listed      == IF KeyPos(projs, user) = 0
                       THEN Append(projs, Item(user, <<>>))
                       ELSE projs
        k           == KeyPos(listed, user)
        listProject == listed[k].list
        project     == Project(user, Len(Stored(projs)), Len(listProject))
    IN  [projects |-> [listed EXCEPT ![k].list = Append(listProject, project)],
         highest_index |-> hi + 1,
         project |-> project]

\* ProjectService.addProject(user): a new project of the user gets the
\* next id and the length of the user's list as index
addProject(projs, hi, user) ==
    LET listed      == IF KeyPos(projs, user) = 0
                       THEN Append(projs, Item(user, <<>>))
                       ELSE projs
        k           == KeyPos(listed, user)
        listProject == listed[k].list
        project     == Project(user, hi, Len(listProject))
    IN  [projects |-> [listed EXCEPT ![k].list = Append(listProject, project)],
         highest_index |-> hi + 1,
         project |-> project]

\* the loop of removeProject over a list: rmv_id is the index of the last
\* project with the id, or None
RmvId(list, identifier) ==
    LET hits == { i \in DOMAIN list : list[i].projectId = identifier }
    IN  IF hits = {} THEN NoneVal
        ELSE Some((CHOOSE i \in hits : \A j \in hits : j <= i) - 1)

\* ProjectService.removeProject(user, identifier); each argument is an
\* option.  With a user and an identifier, `del list[None]` raises and the
\* identifier is then used as an index; without a user the loop over the
\* dict returns or raises in its first iteration
removeProject(projs, user, identifier) ==
    LET out(p, result) == [projects |-> p, result |-> result]
    IN  IF ~IsNone(user)
        THEN LET k == KeyPos(projs, user[1])
             IN  IF k = 0 THEN out(projs, "NotFoundUserError")
                 ELSE IF IsNone(identifier)
                 THEN out(SubSeq(projs, 1, k - 1) \o SubSeq(projs, k + 1, Len(projs)),
                          "True")
                 ELSE LET list == projs[k].list
                          rmv  == RmvId(list, identifier[1])
                      IN  IF ~IsNone(rmv)
                          THEN out([projs EXCEPT ![k].list = DelAt(list, rmv[1])],
                                   "True")
                          ELSE IF InRange(list, identifier[1])
                          THEN out([projs EXCEPT
                                      ![k].list = DelAt(list, identifier[1])],
                                   "True")
                          ELSE out(projs, "NotFoundIDError")
        ELSE IF ~IsNone(identifier)
        THEN IF projs = <<>> THEN out(projs, "False")
             ELSE LET list == projs[1].list
                      rmv  == RmvId(list, identifier[1])
                  IN  IF IsNone(rmv) THEN out(projs, "NotFoundIDError")
                      ELSE out([projs EXCEPT ![1].list = DelAt(list, rmv[1])],
                               "True")
        ELSE out(projs, "False")

\* ProjectService.getProject(user, identifier); each argument is an option
\* (no user is the default ""): what is returned ("list" for a list of
\* projects, "value" for the project with the id projectId) or raised.
\* With a user the identifier is an index into the user's list, and a
\* negative one passes the test `identifier < len(listOfProjects)`
getProject(projs, user, identifier) ==
    LET out(result, id) == [result |-> result, projectId |-> id]
        all == Stored(projs)
    IN  IF IsNone(user)
        THEN IF IsNone(identifier) THEN out("list", 0 - 1)
             ELSE IF identifier[1] >= 0
                     /\ \E i \in DOMAIN all : all[i].projectId = identifier[1]
             THEN out("value", identifier[1])
             ELSE out("NotFoundIDError", 0 - 1)
        ELSE LET k == KeyPos(projs, user[1])
             IN  IF k = 0 THEN out("NotFoundUserError", 0 - 1)
                 ELSE IF IsNone(identifier) THEN out("list", 0 - 1)
                 ELSE IF identifier[1] < Len(projs[k].list)
                 THEN IF InRange(projs[k].list, identifier[1])
                      THEN out("value",
                               projs[k].list[PyIndex(projs[k].list,
                                                     identifier[1])].projectId)
                      ELSE out("IndexError", 0 - 1)
                 ELSE out("NotFoundIDError", 0 - 1)

\* ProjectService.__init__
InitRegistry ==
    /\ projects = <<>>
    /\ highest_index = 0
    /\ phase = "none"
    /\ servicename = <<>>
    /\ port = <<>>
    /\ portaddress = NoneVal
    /\ fileStorage = FALSE
    /\ metadata = FALSE
    /\ customProperties = <<>>
    /\ customPropertiesNone = TRUE
    /\ files = <<>>
    /\ filesNone = FALSE
    /\ useZipForFolder = FALSE
    /\ fileTransferMode = Unset
    /\ loginMode = Unset
    /\ credentials = "unset"
    /\ storage = <<>>
    /\ gen = NoGen
    /\ last = Last("", 0, "", "None", <<>>, NoneVal, "")

\* ProjectService.addProject(user)
AddProject(user) ==
    LET r == addProject(projects, highest_index, user)
    IN  /\ highest_index < MaxProjects
        /\ projects' = r.projects
        /\ highest_index' = r.highest_index
        /\ last' = Last("addProject", r.project.projectId, user, "value", <<>>,
                        NoneVal, "")
        /\ UNCHANGED service

\* ProjectService.removeProject(user, identifier)
RemoveProject(user, identifier) ==
    LET r == removeProject(projects, user, identifier)
    IN  /\ projects' = r.projects
        /\ last' = Last("removeProject", 0, IF IsNone(user) THEN "" ELSE user[1],
                        r.result, <<>>, identifier, "")
        /\ UNCHANGED <<highest_index, service>>

\* ProjectService.getProject(user, identifier)
GetProject(user, identifier) ==
    LET r == getProject(projects, user, identifier)
    IN  /\ last' = Last("getProject", r.projectId,
                        IF IsNone(user) THEN "" ELSE user[1], r.result, <<>>,
                        identifier, "")
        /\ UNCHANGED <<registry, service>>

NextRegistry ==
    \/ \E user \in Users : AddProject(user)
    \/ \E user \in {NoneVal} \cup { Some(u) : u \in Users },
         identifier \in {NoneVal} \cup { Some(n) : n \in Identifiers } :
           GetProject(user, identifier)
    \/ \E user \in {NoneVal} \cup { Some(u) : u \in Users },
         identifier \in {NoneVal} \cup { Some(n) : n \in Identifiers } :
           RemoveProject(user, identifier)

SpecRegistry == InitRegistry /\ [][NextRegistry]_vars

\* ================================================================ claims
\* a step that is a call of the method op (last holds the newest call)
Call(op) == last'.op = op /\ <<last, attrs>>' # <<last, attrs>>

Returned(l) == l.result \in {"True", "False"}
Answered(q) == q.status # NoAnswer
Kinds(l) == [i \in DOMAIN l.reqs |-> l.reqs[i].kind]
\* some request of the call was answered with a status below 300
Confirmed(l, kind) ==
    \E i \in DOMAIN l.reqs :
        l.reqs[i].kind = kind /\ Answered(l.reqs[i]) /\ l.reqs[i].status < 300
\* the sequence f without its entry at the 0-based position i
Without(f, i) == [k \in 1 .. Len(f) - 1 |-> IF k <= i THEN f[k] ELSE f[k + 1]]

C2_ReloadAllOrNothing ==
    [][ (Call("reload") /\ last'.result # "None" /\ ~filesNone /\ ~filesNone')
        => files' = files ]_vars

\* C3 (as claimed): addFile returns false exactly when Metadata is enabled
\* and the upload is answered with a status of 300 or more; when Metadata
\* is disabled or answers below 300 it returns true; no storage request is
\* issued; a false result leaves the adapter unchanged.
C3_AddFileResult ==
    [][ Call("addFile")
        => LET l == last'
               rejected == metadata /\ Len(l.reqs) = 1 /\ Answered(l.reqs[1])
                           /\ l.reqs[1].status >= 300
               accepted == metadata /\ Len(l.reqs) = 1 /\ Answered(l.reqs[1])
                           /\ l.reqs[1].status < 300
           IN  /\ (l.result = "False") <=> rejected
               /\ (~metadata \/ accepted) => l.result = "True"
               /\ \A i \in DOMAIN l.reqs :
                      l.reqs[i].kind = "POST /metadata/project/files"
               /\ l.result = "False" => UNCHANGED <<config, attrs>>
      ]_vars

C5_AddFileCached ==
    (last.op = "addFile" /\ last.result = "True")
        => (\E i \in DOMAIN files : files[i] = last.key)

\* C5 (amended): addFile never changes cachedFiles, whatever it returns.
C5_AddFileLeavesCache ==
    [][ Call("addFile") => (files' = files /\ filesNone' = filesNone) ]_vars

\* C5 witness: addFile returned true and the file is not in the cache
C5_Witness ==
    /\ last.op = "addFile" /\ last.result = "True"
    /\ Len(last.reqs) = 1
    /\ \A i \in DOMAIN files : files[i] # last.key

\* C6 (as claimed): the cache of an adapter is always a sequence; a
\* listing answer without a files field makes it the empty sequence.
C6_CacheIsSequence == phase = "alive" => ~filesNone

\* C7 (as claimed): removeFile(i) and getFile(i) with i outside
\* 0 .. len-1 raise IndexError before any request, the cache is unchanged.
C7_IndexOutOfRange ==
    [][ ((Call("removeFile") \/ Call("getFile")) /\ ~filesNone
            /\ ~(0 <= last'.idx /\ last'.idx < Len(files)))
        => (last'.result = "IndexError" /\ last'.reqs = <<>>
            /\ files' = files /\ filesNone' = filesNone) ]_vars

\* C8 (as claimed): the constructor with an empty port name raises
\* ValidationError, produces no adapter and sends no request.
C8_EmptyNameRejected ==
    (last.op = "__init__" /\ last.val = Some(<<>>))
        => (last.result = "ValidationError" /\ last.reqs = <<>>)

\* C9 (as claimed): getProperty never raises; it returns the value of the
\* first pair with the key, null if there is none.
C9_GetPropertyNeverRaises ==
    last.op = "getProperty"
        => /\ last.result = "value"
           /\ \/ /\ IsNone(last.val)
                 /\ \A i \in DOMAIN customProperties :
                        customProperties[i].key # last.key
              \/ \E i \in DOMAIN customProperties :
                    /\ customProperties[i].key = last.key
                    /\ last.val = Some(customProperties[i].value)
                    /\ \A j \in 1 .. i - 1 : customProperties[j].key # last.key

\* C10: an enumeration with content on a FileStorage adapter has issued no
\* fetch when created, exactly k fetches after k items were consumed, the
\* k-th item being (k-th cache entry, its content), and after it ended
\* normally it has yielded one pair per cache entry.
C10_LazyEnumeration ==
    (phase = "alive" /\ fileStorage /\ gen.getContent
        /\ gen.state \in {"created", "running", "done"})
        => /\ gen.fetches = Len(gen.yielded)
           /\ gen.state = "created" => gen.fetches = 0
           /\ Len(gen.yielded) <= Len(files)
           /\ \A k \in DOMAIN gen.yielded : gen.yielded[k] = << files[k], files[k] >>
           /\ gen.state = "done" => Len(gen.yielded) = Len(files)

\* C10 witness: two cached files, one item consumed, one fetch issued
C10_Witness ==
    /\ fileStorage /\ gen.getContent /\ gen.state = "running"
    /\ Len(files) = 2 /\ Len(gen.yielded) = 1 /\ gen.fetches = 1

\* C11 (as claimed): triggerPassiveMode returns true without a request when
\* Metadata is disabled; with Metadata it issues exactly one POST to the
\* files endpoint of the project and returns false if the status is 300 or
\* more and true otherwise (a transport error propagates); it leaves the
\* cache and the flags unchanged.
C11_TriggerPassiveMode ==
    [][ Call("triggerPassiveMode")
        => LET l == last'
           IN  /\ ~metadata => (l.result = "True" /\ l.reqs = <<>>)
               /\ metadata =>
                     /\ Kinds(l) = << "POST /metadata/project/files" >>
                     /\ l.result = (IF ~Answered(l.reqs[1]) THEN "RequestError"
                                    ELSE IF l.reqs[1].status >= 300
                                    THEN "False" ELSE "True")
               /\ UNCHANGED <<config, attrs>>
      ]_vars

\* C12: on an adapter without FileStorage, getFile(i) with a valid index i
\* returns an empty buffer and issues no request, and an enumeration with
\* content yields every cache entry in order with an empty content, again
\* without a request.
C12_NoStorageEmptyContent ==
    ~fileStorage
        => /\ (last.op = "getFile" /\ 0 <= last.idx /\ last.idx < Len(files))
                 => (last.result = "value" /\ last.content = ""
                     /\ last.reqs = <<>>)
           /\ (gen.getContent /\ gen.state \in {"created", "running", "done"})
                 => /\ gen.fetches = 0
                    /\ Len(gen.yielded) <= Len(files)
                    /\ \A k \in DOMAIN gen.yielded :
                           gen.yielded[k] = << files[k], "" >>
                    /\ gen.state = "done" => Len(gen.yielded) = Len(files)
           /\ (last.op = "next" /\ gen.getContent) => last.reqs = <<>>

\* C12 witness: an enumeration with content over two entries has called
\* getFile(1) for its second item and yielded it with an empty content
C12_Witness ==
    /\ ~fileStorage /\ metadata /\ Len(files) = 2
    /\ gen.getContent /\ Len(gen.yielded) = 2
    /\ last.op = "next" /\ last.idx = 1 /\ last.result = "value"
    /\ last.content = "" /\ last.reqs = <<>>

\* C13 (as claimed): an adapter with neither capability is constructed and
\* reloaded without a request and without a failure, and has an empty
\* cache, archive mode false, and the default transfer mode (0) and login
\* mode (1).
C13_NoCapabilityDefaults ==
    (phase = "alive" /\ ~fileStorage /\ ~metadata)
        => /\ last.op \in {"__init__", "reload"}
                 => (last.result = "None" /\ last.reqs = <<>>)
           /\ files = <<>> /\ ~filesNone
           /\ useZipForFolder = FALSE
           /\ fileTransferMode = 0
           /\ loginMode = 1

\* the positions of the properties of a type in a property list
OfType(properties, portType) ==
    { i \in DOMAIN properties : properties[i].portType = portType }
Max(S) == CHOOSE x \in S : \A y \in S : y <= x

BareName(name) ==
    LET l == Lower(name)
    IN  IF StartsWith(l, PortPrefix) THEN SubSeq(l, Len(PortPrefix) + 1, Len(l))
        ELSE l

\* C15 (as claimed): an adapter created without an override address (by
\* the constructor with testing=False, its default, or by fromDict with
\* testing=None, its default, or False) has the base address
\* http://circle1-port-<bare name in lower case>, whether or not the name
\* given has the prefix "port-" and in whatever letter case; the base
\* address never changes after construction.
C15_BaseAddress ==
    [][ phase' = "alive"
        => IF phase = "alive"
           THEN portaddress' = portaddress
           ELSE (\/ last'.args.testing = TestingFalse
                 \/ last'.op = "factory" /\ last'.args.testing = TestingNone)
                   => portaddress' = Some(ClusterPrefix \o PortPrefix
                                            \o BareName(last'.args.name))
      ]_vars

\* C16: the capability flags of an adapter are the values passed to its
\* constructor, and no call of reload, getFiles, getFile, getProperty,
\* triggerPassiveMode, addFile, removeFile or removeAllFiles changes them,
\* whatever the backends answer and whether or not the call fails.
C16_FlagsFixed ==
    [][ phase' = "alive"
        => IF phase = "alive"
           THEN fileStorage' = fileStorage /\ metadata' = metadata
           ELSE fileStorage' = last'.args.fs /\ metadata' = last'.args.md
      ]_vars

\* C16 witness: an adapter with both capabilities after a bulk delete that
\* was rejected by the metadata backend and a reload that failed
C16_Witness ==
    /\ phase = "alive" /\ fileStorage /\ metadata
    /\ last.op = "removeAllFiles" /\ last.result = "RequestError"
    /\ Len(last.reqs) >= 2 /\ last.reqs[1].status >= 300

\* a step that is a call of the method op of the registry
RegistryCall(op) == last'.op = op /\ <<last, registry>>' # <<last, registry>>
HasId(projs, id) ==
    \E i \in DOMAIN Stored(projs) : Stored(projs)[i].projectId = id

\* C17 (as claimed): removeProject with an identifier and no user removes
\* exactly the stored project with that projectId and returns True,
\* whichever user owns it; it raises NotFoundIDError only when no stored
\* project has the id; it removes no other project.
C17_RemoveById ==
    [][ (RegistryCall("removeProject") /\ last'.key = "" /\ ~IsNone(last'.val))
        => LET id     == last'.val[1]
               before == Stored(projects)
               after  == Stored(projects')
           IN  /\ HasId(projects, id)
                     => /\ last'.result = "True"
                        /\ after = SelectSeq(before, LAMBDA q : q.projectId # id)
               /\ last'.result = "NotFoundIDError" => ~HasId(projects, id)
               /\ \A i \in DOMAIN before :
                      before[i].projectId # id
                         => \E j \in DOMAIN after : after[j] = before[i]
      ]_vars

C19_NoStorageEmptyCache ==
    (phase = "alive" /\ ~fileStorage)
        => /\ files = <<>> /\ ~filesNone
           /\ last.op \in {"removeFile", "getFile"}
                 => (last.result = "IndexError" /\ last.reqs = <<>>)
           /\ \A i \in DOMAIN last.reqs :
                  last.reqs[i].kind # "DELETE /metadata/project/files/id"

\* C19 witness: removeFile(0) on a Metadata-only adapter failed the index
\* check
C19_Witness ==
    /\ phase = "alive" /\ ~fileStorage /\ metadata
    /\ last.op = "removeFile" /\ last.idx = 0 /\ last.result = "IndexError"
    /\ files = <<>>

\* C18 (as claimed): over a storage backend changed only through the
\* adapter, a FileStorage-only adapter has a cache equal to the backend's
\* listing after every completed construction, reload, addFile, removeFile
\* and removeAllFiles, and an adapter with both capabilities has it after
\* every removeFile that returns true (stated for a cache that is a list).
C18_CacheEqualsListing ==
    [][ /\ (phase' = "alive" /\ fileStorage' /\ ~metadata' /\ ~filesNone')
              => files' = storage'
        /\ (fileStorage /\ metadata /\ Call("removeFile")
               /\ last'.result = "True" /\ ~filesNone /\ files = storage)
              => files' = storage'
      ]_vars

\* C18 (amended): a FileStorage-only adapter has a cache that is None or
\* equal to the backend's listing; on an adapter with both capabilities a
\* removeFile that returns true keeps an equal cache equal exactly if the
\* storage delete was answered below 300, and otherwise (only the metadata
\* delete was) the file stays on the backend while its entry has left the
\* cache.
C18_CacheFollowsStorageDeletes ==
    [][ /\ (phase' = "alive" /\ fileStorage' /\ ~metadata' /\ ~filesNone')
              => files' = storage'
        /\ (fileStorage /\ metadata /\ Call("removeFile")
               /\ last'.result = "True" /\ ~filesNone /\ files = storage)
              => IF Confirmed(last', "DELETE /storage/file")
                 THEN files' = storage'
                 ELSE /\ storage' = storage
                      /\ files' = Without(files, PyIndex(files, last'.idx) - 1)
      ]_vars

\* C18 witness: an adapter with both capabilities removed the first of two
\* files, confirmed by the storage backend only, and cache and listing
\* both hold the other file
C18_Witness ==
    /\ phase = "alive" /\ fileStorage /\ metadata
    /\ last.op = "removeFile" /\ last.idx = 0 /\ last.result = "True"
    /\ Confirmed(last, "DELETE /storage/file")
    /\ ~Confirmed(last, "DELETE /metadata/project/files/id")
    /\ Len(files) = 1 /\ files = storage

\* C21 (as claimed): every stored project's projectIndex is its position
\* in its owner's list, and getProject(user, p.projectIndex) returns p for
\* every stored project p of the user.
C21_IndexIsPosition ==
    \A k \in DOMAIN projects :
        \A i \in DOMAIN projects[k].list :
            LET p == projects[k].list[i]
                r == getProject(projects, Some(p.user), Some(p.projectIndex))
            IN  /\ p.projectIndex = i - 1
                /\ r.result = "value" /\ r.projectId = p.projectId

====
